---- MODULE Spec2Model ----
(***************************************************************************)
(* Model of download_webmethods_assets.py: main -> load_json_data ->       *)
(* process_assets -> (download_file per asset) -> git_operations.          *)
(*                                                                         *)
(* A string is a sequence of one-character strings.  A URL as it stands in *)
(* the JSON text is a sequence of lexical tokens, each a character or the  *)
(* character reference "&amp;"; html.unescape turns it into characters.    *)
(***************************************************************************)
EXTENDS Integers, Sequences, FiniteSets, TLC

\* ------------------------------------------------------------------ bounds
MaxAssets == 2
MaxUrlLen == 3
MaxNameLen == 1

\* ------------------------------------------------------------- characters
Letters == {"a", "b", "n", "t", "z", "i", "p", "o", "e", "N"}
Digits == {"5"}

\* str.isalnum() of one character
IsAlnum(c) == c \in Letters \cup Digits

\* the characters the cleaning step of process_assets keeps
Keeps(c) == IsAlnum(c) \/ c \in {".", "_", "-", " "}

\* the cleaning step left out
SanitizeNothing(s) == s

\* ''.join(c for c in filename if c.isalnum() or c in '._- ')
Sanitize(s) == SelectSeq(s, Keeps)

\* html.unescape, on the tokens of a URL
UnescapeToken(t) == IF t = "&amp;" THEN "&" ELSE t
HtmlUnescape(s) == [i \in 1..Len(s) |-> UnescapeToken(s[i])]

\* the positions of character c in s
Positions(s, c) == {i \in 1..Len(s) : s[i] = c}

Max(S) == CHOOSE x \in S : \A y \in S : y <= x
Min(S) == CHOOSE x \in S : \A y \in S : x <= y

\* s.split('?')[0]
SplitQuery(s) ==
    IF Positions(s, "?") = {} THEN s
    ELSE SubSeq(s, 1, Min(Positions(s, "?")) - 1)

\* os.path.basename (posixpath): the text after the last '/'
Basename(s) ==
    IF Positions(s, "/") = {} THEN s
    ELSE SubSeq(s, Max(Positions(s, "/")) + 1, Len(s))

\* an extension taken at the last '.' whatever precedes it
SplitextLastDot(p) ==
    IF Positions(p, ".") = {} THEN << >>
    ELSE SubSeq(p, Max(Positions(p, ".")), Len(p))

\* os.path.splitext(p)[1] (genericpath._splitext): the text from the last '.'
\* after the last '/', unless only dots precede that '.' in the last segment
Splitext1(p) ==
    LET sepIndex == IF Positions(p, "/") = {} THEN 0 ELSE Max(Positions(p, "/"))
        dotIndex == IF Positions(p, ".") = {} THEN 0 ELSE Max(Positions(p, "."))
    IN  IF /\ dotIndex > sepIndex
           /\ \E k \in (sepIndex + 1)..(dotIndex - 1) : p[k] # "."
        THEN SubSeq(p, dotIndex, Len(p))
        ELSE << >>

\* os.path.join(a, b) (posixpath)
PathJoin(a, b) ==
    IF Len(b) > 0 /\ b[1] = "/" THEN b
    ELSE IF Len(a) = 0 \/ a[Len(a)] = "/" THEN a \o b
    ELSE a \o <<"/">> \o b

\* --------------------------------------------------------- JSON values
\* A field of an asset mapping: absent, a string, null, or a non-zero number.
Absent == [t |-> "absent", s |-> << >>]
Null == [t |-> "null", s |-> << >>]
Num == [t |-> "num", s |-> <<"5">>]
Str(s) == [t |-> "str", s |-> s]

Present(v) == v.t # "absent"

\* Python truthiness of a JSON value
Truthy(v) == \/ v.t = "num"
             \/ v.t = "str" /\ Len(v.s) > 0

\* str(v), as an f-string formats it
Format(v) ==
    CASE v.t = "str" -> v.s
      [] v.t = "num" -> v.s
      [] OTHER -> <<"N", "o", "n", "e">>

UrlKeys == <<"downloadLink", "download_link", "url", "link", "downloadUrl">>

\* an element that is not a mapping (a number, null, true)
NotADict == [dict |-> FALSE, downloadLink |-> Absent, download_link |-> Absent,
             url |-> Absent, link |-> Absent, downloadUrl |-> Absent,
             name |-> Absent, type |-> Absent, filename |-> Absent]

EmptyDict == [NotADict EXCEPT !.dict = TRUE]

\* for key in [...]: if key in asset: download_url = asset[key]; break
FirstUrlKey(asset) ==
    IF \E i \in 1..Len(UrlKeys) : Present(asset[UrlKeys[i]])
    THEN Min({i \in 1..Len(UrlKeys) : Present(asset[UrlKeys[i]])})
    ELSE 0

DownloadUrl(asset) ==
    IF FirstUrlKey(asset) = 0 THEN Null ELSE asset[UrlKeys[FirstUrlKey(asset)]]

\* an element without a download link ends the loop instead of being skipped
DispositionAborts(asset) ==
    IF ~asset.dict THEN "raise"
    ELSE IF ~Truthy(DownloadUrl(asset)) THEN "raise"
    ELSE IF DownloadUrl(asset).t # "str" THEN "raise"
    ELSE IF /\ ~(Present(asset.name) /\ Present(asset.type))
            /\ Present(asset.filename)
            /\ asset.filename.t # "str" THEN "raise"
    ELSE "get"

\* what one iteration of the loop does before it reaches download_file:
\*   "raise"  a TypeError/AttributeError leaves the loop
\*   "skip"   no download link, continue
\*   "get"    download_file is called
Disposition(asset) ==
    IF ~asset.dict THEN "raise"
    ELSE IF ~Truthy(DownloadUrl(asset)) THEN "skip"
    ELSE IF DownloadUrl(asset).t # "str" THEN "raise"
    ELSE IF /\ ~(Present(asset.name) /\ Present(asset.type))
            /\ Present(asset.filename)
            /\ asset.filename.t # "str" THEN "raise"
    ELSE "get"

\* download_url after html.unescape
CleanUrl(asset) == HtmlUnescape(DownloadUrl(asset).s)

\* the filename before cleaning
RawFilename(asset) ==
    LET filename == Basename(SplitQuery(CleanUrl(asset)))
        ext == IF Splitext1(filename) # << >> THEN Splitext1(filename)
               ELSE <<".", "z", "i", "p">>
    IN  IF Present(asset.name) /\ Present(asset.type)
        THEN Format(asset.name) \o <<".">> \o Format(asset.type) \o ext
        ELSE IF Present(asset.filename) THEN asset.filename.s
        ELSE IF Present(asset.name) THEN Format(asset.name) \o <<".", "z", "i", "p">>
        ELSE filename

\* output_path = os.path.join(output_dir, cleaned filename)
OutputPath(dir, asset) == PathJoin(dir, Sanitize(RawFilename(asset)))


\* ------------------------------------------------------------- the inputs
U_ab == <<"a", "/", "b">>
U_nb == <<"n", "/", "b">>
U_dir == <<"a", "/">>
U_bz == <<"a", "/", "b", ".", "z", "?", "t">>

WithUrl(u) == [EmptyDict EXCEPT !.url = Str(u)]

A_plain == WithUrl(U_ab)
A_other == WithUrl(U_nb)
A_typed == [WithUrl(U_bz) EXCEPT !.name = Str(<<"n">>), !.type = Num]
A_file == [EmptyDict EXCEPT !.link = Str(U_ab),
                            !.filename = Str(<<".", ".", "/", "e">>),
                            !.name = Str(<<"n">>)]
A_nourl == [EmptyDict EXCEPT !.name = Str(<<"n">>)]
A_emptyurl == [WithUrl(U_ab) EXCEPT !.downloadLink = Str(<< >>)]
A_numurl == [EmptyDict EXCEPT !.downloadUrl = Num]
A_dir == WithUrl(U_dir)

AssetPool == {A_plain, A_other, A_typed, A_nourl, A_numurl, NotADict}

SeqsUpTo(S, n) == UNION {[1..k -> S] : k \in 0..n}

\* a JSON value: null (also what load_json_data returns on failure), a
\* scalar, a list of elements, or a mapping: what it holds under each of the
\* four recognised keys (nothing, a non-list, a list) and whether it has
\* other keys besides.
JAbsent == [t |-> "absent", items |-> << >>]
JScalar == [t |-> "scalar", items |-> << >>]
JList(l) == [t |-> "list", items |-> l]

None == [kind |-> "null"]
KeyValues == {JAbsent, JScalar, JList(<< >>), JList(<<A_plain>>), JList(<<A_emptyurl>>)}

\* the values tried under the last of the four keys
LastKeyValues == {JAbsent, JScalar, JList(<<A_file>>), JList(<<A_dir>>)}

\* other keys show only in a mapping that has none of the four
OtherKeys(a, i, d, r) ==
    IF a = JAbsent /\ i = JAbsent /\ d = JAbsent /\ r = JAbsent
    THEN BOOLEAN ELSE {FALSE}

JsonDocs ==
    {[kind |-> "scalar", truthy |-> b] : b \in BOOLEAN}
    \cup {[kind |-> "list", items |-> l] : l \in SeqsUpTo(AssetPool, MaxAssets)}
    \cup UNION {{[kind |-> "dict", assets |-> a, items |-> i, data |-> d,
                  results |-> r, other |-> o] : o \in OtherKeys(a, i, d, r)} :
                    a \in KeyValues, i \in KeyValues, d \in KeyValues,
                    r \in LastKeyValues}

\* load_json_data(json_file, json_string); an argument is "absent", names
\* something that cannot be read or parsed ("bad"), or yields doc ("ok")
LoadJsonData(json_file, json_string, doc) ==
    IF json_file # "absent"
    THEN IF json_file = "ok" THEN doc ELSE None
    ELSE IF json_string # "absent"
    THEN IF json_string = "ok" THEN doc ELSE None
    ELSE None

\* `not json_data`
Falsy(j) ==
    CASE j.kind = "null" -> TRUE
      [] j.kind = "scalar" -> ~j.truthy
      [] j.kind = "list" -> j.items = << >>
      [] j.kind = "dict" -> /\ j.assets = JAbsent /\ j.items = JAbsent
                            /\ j.data = JAbsent /\ j.results = JAbsent
                            /\ ~j.other

ArrayKeys == <<"assets", "items", "data", "results">>

\* the first key present is taken, its value a list or not
SelectAssetsFirstPresent(j) ==
    IF j.kind = "dict"
    THEN IF \E i \in 1..Len(ArrayKeys) : j[ArrayKeys[i]].t # "absent"
         THEN j[ArrayKeys[Min({i \in 1..Len(ArrayKeys) : j[ArrayKeys[i]].t # "absent"})]]
         ELSE JScalar
    ELSE IF j.kind = "list" THEN JList(j.items)
    ELSE JScalar

\* the value process_assets iterates over, as a key value: the JSON value
\* itself, or for a mapping the first list under the keys of ArrayKeys
SelectAssets(j) ==
    IF j.kind = "dict"
    THEN IF \E i \in 1..Len(ArrayKeys) : j[ArrayKeys[i]].t = "list"
         THEN j[ArrayKeys[Min({i \in 1..Len(ArrayKeys) : j[ArrayKeys[i]].t = "list"})]]
         ELSE JScalar
    ELSE IF j.kind = "list" THEN JList(j.items)
    ELSE JScalar

\* a path that names a directory, so that open() for writing fails: the
\* output directory itself, "." or ".." in it
IsDirectory(filename) == filename \in {<< >>, <<".">>, <<".", ".">>}

OutDir == <<"o">>

\* -------------------------------------------------------------- the state
VARIABLES
    pc,               \* where the run stands
    doc,              \* the JSON document the command line names
    json_data,        \* what load_json_data returned
    mock,             \* --mock
    git_repo,         \* --git-repo is a non-empty string
    github_actions,   \* os.environ GITHUB_ACTIONS == 'true'
    assets,           \* the list process_assets iterates over
    idx,              \* the element the loop is at
    downloaded_files, \* local variable of process_assets
    fs,               \* the files of the output directory: path -> content
    requests,         \* the number of requests.get calls issued
    calls,            \* the download_file calls made, in order
    why,              \* the return statement process_assets left through
    cwd,              \* the process working directory
    original_dir,     \* local variable of git_operations
    start_exists,     \* the directory the process started in still exists
    fileIdx,          \* the file the staging loop is at
    staged,           \* the index differs from HEAD
    status_out,       \* `git status --porcelain` printed something
    remotes,          \* what `git remote` listed: "none", "origin", "substring", "other"
    gitLog,           \* the git commands run, in order
    failed,           \* the git commands that exited non-zero
    gitRet,           \* what git_operations returned
    published,        \* the files_to_add of each git_operations call
    success,          \* what process_assets returned
    exitCode          \* what main returned

dlVars == <<assets, idx, downloaded_files, fs, requests, calls, why>>
gitVars == <<cwd, original_dir, start_exists, fileIdx, staged, status_out, remotes, gitLog, failed, gitRet, published>>
inVars == <<doc, mock, git_repo, github_actions>>
vars == <<pc, doc, json_data, mock, git_repo, github_actions, assets, idx,
          downloaded_files, fs, requests, calls, why, cwd, original_dir, start_exists,
          fileIdx, staged, status_out, remotes, gitLog, failed, gitRet, published,
          success, exitCode>>

Idle ==
    /\ json_data = None
    /\ assets = << >>
    /\ idx = 0
    /\ downloaded_files = << >>
    /\ fs = << >>
    /\ requests = 0
    /\ calls = << >>
    /\ why = "running"
    /\ cwd = "start"
    /\ original_dir = "unset"
    /\ start_exists = TRUE
    /\ fileIdx = 0
    /\ staged = FALSE
    /\ status_out = FALSE
    /\ remotes = "unknown"
    /\ gitLog = << >>
    /\ failed = {}
    /\ gitRet = "none"
    /\ published = << >>
    /\ success = "none"
    /\ exitCode = -1

Init ==
    /\ pc = "main"
    /\ doc \in JsonDocs
    /\ mock \in BOOLEAN
    /\ git_repo \in BOOLEAN
    /\ github_actions \in BOOLEAN
    /\ Idle


\* ------------------------------------------------------------ main, part 1
\* what parser.parse_args() does with the command line: it returns the
\* arguments, or ends the process on --help or on a usage error
ArgvOutcomes == {"parsed", "help", "usage"}

\* the status argparse ends the process with
ParseExit(outcome) == IF outcome = "help" THEN 0 ELSE 2

\* main: args = parse_arguments()
ParseArguments ==
    /\ pc = "main"
    /\ \E outcome \in ArgvOutcomes :
          IF outcome = "parsed"
          THEN /\ pc' = "load"
               /\ UNCHANGED <<why, exitCode>>
          ELSE /\ why' = outcome
               /\ exitCode' = ParseExit(outcome)
               /\ pc' = "done"
    /\ UNCHANGED <<inVars, json_data, assets, idx, downloaded_files, fs,
                   requests, calls, gitVars, success>>

\* main: json_data = load_json_data(args.json_file, args.json_string)
Load ==
    /\ pc = "load"
    /\ \E json_file \in {"absent", "bad", "ok"}, json_string \in {"absent", "bad", "ok"} :
          json_data' = LoadJsonData(json_file, json_string, doc)
    /\ pc' = "process"
    /\ UNCHANGED <<inVars, dlVars, gitVars, success, exitCode>>

\* --------------------------------------------------------- process_assets
\* process_assets up to the loop: the `not json_data` test, os.makedirs of
\* the output directory (which may raise: nothing catches it), the choice of
\* the asset list
Begin ==
    /\ pc = "process"
    /\ IF Falsy(json_data)
       THEN /\ why' = "nojson"
            /\ success' = "false"
            /\ pc' = "return"
            /\ UNCHANGED <<assets, idx, exitCode>>
       ELSE \E makedirs_ok \in BOOLEAN :
            IF ~makedirs_ok
            THEN /\ why' = "uncaught"
                 /\ exitCode' = 1
                 /\ pc' = "done"
                 /\ UNCHANGED <<assets, idx, success>>
            ELSE IF SelectAssets(json_data).t # "list"
            THEN /\ why' = "noarray"
                 /\ success' = "false"
                 /\ pc' = "return"
                 /\ UNCHANGED <<assets, idx, exitCode>>
            ELSE /\ assets' = SelectAssets(json_data).items
                 /\ idx' = 1
                 /\ pc' = "loop"
                 /\ UNCHANGED <<why, success, exitCode>>
    /\ UNCHANGED <<inVars, json_data, downloaded_files, fs, requests, calls, gitVars>>

\* the outcomes of requests.get(...), raise_for_status() and the streamed
\* write: success, HTTP 404, another HTTP error status, a transport error
\* before the file is opened, a transport error while the body is streamed
Outcomes == {"ok", "http404", "httperr", "transport", "stream"}

\* download_file(url, output_path, mock): the returned boolean
DownloadReturns(filename, is_mock, outcome) ==
    /\ ~IsDirectory(filename)
    /\ is_mock \/ outcome = "ok"

\* the placeholder names the output path instead of the URL
DownloadWritesPath(files, url, filename, output_path, is_mock, outcome) ==
    IF IsDirectory(filename) \/ (~is_mock /\ outcome \notin {"ok", "stream"})
    THEN files
    ELSE [q \in DOMAIN files \cup {output_path} |->
            IF q = output_path
            THEN [kind |-> IF is_mock THEN "mock"
                           ELSE IF outcome = "ok" THEN "body" ELSE "partial",
                  url |-> output_path]
            ELSE files[q]]

\* download_file: the file system it leaves
DownloadWrites(files, url, filename, output_path, is_mock, outcome) ==
    IF IsDirectory(filename) \/ (~is_mock /\ outcome \notin {"ok", "stream"})
    THEN files
    ELSE [q \in DOMAIN files \cup {output_path} |->
            IF q = output_path
            THEN [kind |-> IF is_mock THEN "mock"
                           ELSE IF outcome = "ok" THEN "body" ELSE "partial",
                  url |-> url]
            ELSE files[q]]

\* the list after `if download_file(...): downloaded_files.append(output_path)`
Collect(files, output_path, ok) == IF ok THEN Append(files, output_path) ELSE files

\* one iteration of `for asset in assets`
ProcessAsset ==
    /\ pc = "loop"
    /\ idx <= Len(assets)
    /\ LET asset == assets[idx]
           filename == Sanitize(RawFilename(asset))
           output_path == OutputPath(OutDir, asset)
       IN  CASE Disposition(asset) = "raise" ->
                  /\ why' = "exception"
                  /\ success' = "false"
                  /\ pc' = "return"
                  /\ UNCHANGED <<idx, downloaded_files, fs, requests, calls>>
             [] Disposition(asset) = "skip" ->
                  /\ idx' = idx + 1
                  /\ UNCHANGED <<pc, why, success, downloaded_files, fs, requests, calls>>
             [] OTHER ->
                  \E outcome \in (IF mock THEN {"ok"} ELSE Outcomes) :
                     /\ fs' = DownloadWrites(fs, CleanUrl(asset), filename,
                                             output_path, mock, outcome)
                     /\ requests' = IF mock THEN requests ELSE requests + 1
                     /\ downloaded_files' =
                           Collect(downloaded_files, output_path,
                                   DownloadReturns(filename, mock, outcome))
                     /\ calls' = Append(calls,
                                   [idx |-> idx,
                                    url |-> CleanUrl(asset),
                                    raw |-> RawFilename(asset),
                                    path |-> output_path,
                                    ok |-> DownloadReturns(filename, mock, outcome)])
                     /\ idx' = idx + 1
                     /\ UNCHANGED <<pc, why, success>>
    /\ UNCHANGED <<inVars, json_data, assets, gitVars, exitCode>>

\* after the loop: `if git_repo and downloaded_files:` calls git_operations,
\* otherwise return len(downloaded_files) > 0
AfterLoop ==
    /\ pc = "loop"
    /\ idx > Len(assets)
    /\ IF git_repo /\ downloaded_files # << >>
       THEN /\ pc' = "git"
            /\ published' = Append(published, downloaded_files)
            /\ UNCHANGED <<why, success>>
       ELSE /\ pc' = "return"
            /\ why' = "nogit"
            /\ success' = IF Len(downloaded_files) > 0 THEN "true" ELSE "false"
            /\ UNCHANGED published
    /\ UNCHANGED <<inVars, json_data, assets, idx, downloaded_files, fs, requests,
                   calls, cwd, original_dir, start_exists, fileIdx, staged, status_out,
                   remotes, gitLog, failed, gitRet, exitCode>>


\* --------------------------------------------------------- git_operations
\* The outcome of each git command is the environment's: its exit status,
\* and for `git status --porcelain` and `git remote` what it prints.

\* finally: os.chdir(original_dir), which raises FileNotFoundError and
\* leaves the directory as it is when original_dir no longer exists
Restore(dir, original, exists) == IF exists THEN original ELSE dir

\* except Exception: if os.getcwd() != original_dir: os.chdir(original_dir),
\* which raises again when original_dir no longer exists
ExceptRestore(dir, original, exists) ==
    IF dir # original /\ exists THEN original ELSE dir

\* os.chdir(original_dir) raises: the directory is gone
ChdirRaises(exists) == ~exists

\* subprocess.run([...], check=True) raises on a non-zero exit status
Raises(exit_ok) == ~exit_ok

\* `if result.stdout.strip():` after git status --porcelain, which lists
\* staged changes and also unstaged and untracked files; a failing git
\* status prints nothing on stdout
StatusPrints(exit_ok, is_staged, is_dirty) == exit_ok /\ (is_staged \/ is_dirty)

\* `if 'origin' in result.stdout:` after git remote; a failing git remote
\* prints nothing on stdout
OriginInOutput(exit_ok, configured) ==
    exit_ok /\ configured \in {"origin", "substring"}

\* a command raised: in standalone mode past os.chdir the finally clause
\* runs, then the handler of the enclosing try; git_operations returns False
\* and process_assets returns that
GitReturnsFalse(in_finally, exists) ==
    /\ gitRet' = "false"
    /\ cwd' = IF github_actions THEN cwd
              ELSE IF in_finally
              THEN ExceptRestore(Restore(cwd, original_dir, exists),
                                 original_dir, exists)
              ELSE ExceptRestore(cwd, original_dir, exists)
    /\ success' = "false"
    /\ why' = "published"
    /\ pc' = "return"

\* a command run with check=True exited non-zero
GitFail(cmd, in_finally) ==
    /\ failed' = failed \cup {cmd}
    /\ GitReturnsFalse(in_finally, start_exists)

\* no command raised: the managed-runner branch returns True; the
\* standalone branch runs the finally clause and returns True, unless the
\* os.chdir of the finally clause raises: then the handler of the enclosing
\* try runs (its os.chdir raises too), and the outermost handler returns False
GitSucceed ==
    /\ IF github_actions
       THEN /\ gitRet' = "true"
            /\ UNCHANGED cwd
       ELSE /\ gitRet' = IF ChdirRaises(start_exists) THEN "false" ELSE "true"
            /\ cwd' = ExceptRestore(Restore(cwd, original_dir, start_exists),
                                    original_dir, start_exists)
    /\ success' = gitRet'
    /\ why' = "published"
    /\ pc' = "return"

dlRest == <<assets, idx, downloaded_files, fs, requests, calls>>

\* the mode test; standalone mode stores os.getcwd()
GitEnter ==
    /\ pc = "git"
    /\ IF github_actions
       THEN /\ pc' = "add"
            /\ fileIdx' = 1
            /\ UNCHANGED original_dir
       ELSE /\ pc' = "init"
            /\ original_dir' = cwd
            /\ UNCHANGED fileIdx
    /\ UNCHANGED <<inVars, json_data, dlVars, cwd, start_exists, staged, status_out, remotes,
                   gitLog, failed, gitRet, published, success, exitCode>>

\* if not os.path.exists(<repo>/.git): git init <repo>
GitInit ==
    /\ pc = "init"
    /\ \E has_git \in BOOLEAN, exit_ok \in BOOLEAN :
          IF has_git
          THEN /\ pc' = "chdir"
               /\ UNCHANGED <<gitLog, failed, gitRet, cwd, success, why>>
          ELSE /\ gitLog' = Append(gitLog, "init")
               /\ IF Raises(exit_ok)
                  THEN GitFail("init", FALSE)
                  ELSE /\ pc' = "chdir"
                       /\ UNCHANGED <<failed, gitRet, cwd, success, why>>
    /\ UNCHANGED <<inVars, json_data, dlRest, start_exists, original_dir, fileIdx, staged,
                   status_out, remotes, published, exitCode>>

\* os.chdir(repo_path)
GitChdir ==
    /\ pc = "chdir"
    /\ \E chdir_ok \in BOOLEAN :
          IF chdir_ok
          THEN /\ cwd' = "repo"
               /\ pc' = "rev-parse"
               /\ UNCHANGED <<failed, gitRet, success, why>>
          ELSE GitFail("chdir", FALSE)
    /\ UNCHANGED <<inVars, json_data, dlRest, start_exists, original_dir, fileIdx, staged,
                   status_out, remotes, gitLog, published, exitCode>>

\* git rev-parse --verify <branch>, run without check=True: it raises when
\* git cannot be started, exits 0 for an existing branch and non-zero
\* otherwise
RevParseOutcomes == {"raise", "zero", "nonzero"}

GitRevParse ==
    /\ pc = "rev-parse"
    /\ \E outcome \in RevParseOutcomes :
          /\ gitLog' = Append(gitLog, "rev-parse")
          /\ IF outcome = "raise"
             THEN GitReturnsFalse(TRUE, start_exists)
             ELSE /\ pc' = IF outcome = "zero" THEN "checkout" ELSE "checkout-b"
                  /\ UNCHANGED <<gitRet, cwd, success, why>>
    /\ UNCHANGED <<inVars, json_data, dlRest, start_exists, original_dir, fileIdx, staged,
                   status_out, remotes, failed, published, exitCode>>

\* what `git checkout <existing branch>` may do to a written file that
\* equals the version tracked on the current branch: keep it, remove it (the
\* target branch has no such file), or replace it by the target branch's
\* version
TreeEffects == {"keep", "remove", "replace"}

\* a file of the output directory that only the target branch tracks
TrackedOnly == PathJoin(OutDir, <<"x">>)

\* the files of the output directory after the checkout, which may bring
\* the file that only the target branch tracks
CheckoutTree(files, effect, brings) ==
    [q \in {r \in DOMAIN files : effect[r] # "remove"}
           \cup (IF brings THEN {TrackedOnly} ELSE {}) |->
        IF q \notin DOMAIN files \/ effect[q] = "replace"
        THEN [kind |-> "tracked", url |-> << >>]
        ELSE files[q]]

\* git checkout -b <branch> for a new branch, which leaves the working tree
\* alone, or git checkout <branch>, which rewrites it, may remove the
\* directory the process started in, and may have done so when it exits
\* non-zero
GitCheckout ==
    /\ pc \in {"checkout", "checkout-b"}
    /\ \E exit_ok \in BOOLEAN :
          /\ gitLog' = Append(gitLog, "checkout")
          /\ IF pc = "checkout"
             THEN /\ start_exists' \in BOOLEAN
                  /\ \E effect \in [DOMAIN fs -> TreeEffects], brings \in BOOLEAN :
                        fs' = CheckoutTree(fs, effect, brings)
             ELSE UNCHANGED <<fs, start_exists>>
          /\ IF Raises(exit_ok)
             THEN /\ failed' = failed \cup {"checkout"}
                  /\ GitReturnsFalse(TRUE, start_exists')
                  /\ UNCHANGED fileIdx
             ELSE /\ pc' = "add"
                  /\ fileIdx' = 1
                  /\ UNCHANGED <<failed, gitRet, cwd, success, why>>
    /\ UNCHANGED <<inVars, json_data, assets, idx, downloaded_files, requests,
                   calls, original_dir, staged, status_out, remotes, published,
                   exitCode>>

\* one iteration of `for file_path in files_to_add`: git add <path relative
\* to the repository>, computed after the change of directory, so that the
\* path git is given need not name the written file
GitAdd ==
    /\ pc = "add"
    /\ fileIdx <= Len(downloaded_files)
    /\ \E exit_ok \in BOOLEAN :
          /\ gitLog' = Append(gitLog, "add")
          /\ IF Raises(exit_ok)
             THEN /\ GitFail("add", TRUE)
                  /\ UNCHANGED fileIdx
             ELSE /\ fileIdx' = fileIdx + 1
                  /\ pc' = IF fileIdx = Len(downloaded_files) THEN "status" ELSE "add"
                  /\ UNCHANGED <<failed, gitRet, cwd, success, why>>
    /\ UNCHANGED <<inVars, json_data, dlRest, start_exists, original_dir, staged, status_out,
                   remotes, published, exitCode>>

\* text=True: output that is not valid in the locale's encoding raises
\* UnicodeDecodeError; only a command that printed something can raise it
DecodeOutcomes(printed) == IF printed THEN BOOLEAN ELSE {TRUE}

\* git status --porcelain, run without check=True and with text=True
GitStatus ==
    /\ pc = "status"
    /\ \E exit_ok \in BOOLEAN, is_staged \in BOOLEAN, is_dirty \in BOOLEAN :
       \E decodes \in DecodeOutcomes(StatusPrints(exit_ok, is_staged, is_dirty)) :
          /\ gitLog' = Append(gitLog, "status")
          /\ staged' = is_staged
          /\ status_out' = StatusPrints(exit_ok, is_staged, is_dirty)
          /\ failed' = IF exit_ok THEN failed ELSE failed \cup {"status"}
          /\ IF ~decodes
             THEN GitReturnsFalse(TRUE, start_exists)
             ELSE IF StatusPrints(exit_ok, is_staged, is_dirty)
             THEN /\ pc' = "commit"
                  /\ UNCHANGED <<gitRet, cwd, success, why>>
             ELSE GitSucceed
    /\ UNCHANGED <<inVars, json_data, dlRest, start_exists, original_dir, fileIdx, remotes,
                   published, exitCode>>

\* git commit -m <message>, run with check=True; git decides the exit status
\* (with nothing staged it refuses, unless it has a merge to conclude)
GitCommit ==
    /\ pc = "commit"
    /\ \E exit_ok \in BOOLEAN :
          /\ gitLog' = Append(gitLog, "commit")
          /\ IF Raises(exit_ok)
             THEN GitFail("commit", TRUE)
             ELSE /\ pc' = IF github_actions THEN "push" ELSE "remote"
                  /\ UNCHANGED <<failed, gitRet, cwd, success, why>>
    /\ UNCHANGED <<inVars, json_data, dlRest, start_exists, original_dir, fileIdx, staged,
                   status_out, remotes, published, exitCode>>

\* the remotes git remote may list: none, one named origin, one whose name
\* holds origin inside it (myorigin), one whose name does not (upstream)
RemoteLists == {"none", "origin", "substring", "other"}

\* standalone mode: git remote, run without check=True and with text=True
GitRemote ==
    /\ pc = "remote"
    /\ \E exit_ok \in BOOLEAN, configured \in RemoteLists :
       \E decodes \in DecodeOutcomes(exit_ok /\ configured # "none") :
          /\ gitLog' = Append(gitLog, "remote")
          /\ remotes' = IF exit_ok THEN configured ELSE "none"
          /\ failed' = IF exit_ok THEN failed ELSE failed \cup {"remote"}
          /\ IF ~decodes
             THEN GitReturnsFalse(TRUE, start_exists)
             ELSE IF OriginInOutput(exit_ok, configured)
             THEN /\ pc' = "push"
                  /\ UNCHANGED <<gitRet, cwd, success, why>>
             ELSE GitSucceed
    /\ UNCHANGED <<inVars, json_data, dlRest, start_exists, original_dir, fileIdx, staged,
                   status_out, published, exitCode>>

\* git push (managed runner) or git push origin <branch> (standalone)
GitPush ==
    /\ pc = "push"
    /\ \E exit_ok \in BOOLEAN :
          /\ gitLog' = Append(gitLog, "push")
          /\ IF Raises(exit_ok)
             THEN GitFail("push", TRUE)
             ELSE /\ GitSucceed
                  /\ UNCHANGED failed
    /\ UNCHANGED <<inVars, json_data, dlRest, start_exists, original_dir, fileIdx, staged,
                   status_out, remotes, published, exitCode>>

\* ------------------------------------------------------------ main, part 2
\* the two exit codes swapped
ExitCodeSwapped(ok) == IF ok THEN 1 ELSE 0

\* return 0 if success else 1
ExitCode(ok) == IF ok THEN 0 ELSE 1

MainReturn ==
    /\ pc = "return"
    /\ exitCode' = ExitCode(success = "true")
    /\ pc' = "done"
    /\ UNCHANGED <<inVars, json_data, dlVars, gitVars, success>>

Next ==
    \/ ParseArguments
    \/ Load
    \/ Begin
    \/ ProcessAsset
    \/ AfterLoop
    \/ GitEnter
    \/ GitInit
    \/ GitChdir
    \/ GitRevParse
    \/ GitCheckout
    \/ GitAdd
    \/ GitStatus
    \/ GitCommit
    \/ GitRemote
    \/ GitPush
    \/ MainReturn

Spec == Init /\ [][Next]_vars


\* ------------------------------------------- one asset, every short string
\* The naming of one asset, over every URL of at most MaxUrlLen tokens and
\* every filename of at most MaxNameLen characters.
UrlTokens == {"a", ".", "/", "?", "&amp;"}
NameChars == {"a", ".", "/", " "}

NamedAssets ==
    {[EmptyDict EXCEPT !.url = Str(u), !.name = n, !.type = t, !.filename = f] :
        u \in SeqsUpTo(UrlTokens, MaxUrlLen),
        n \in {Absent, Str(<<"n">>), Str(<<"/">>)},
        t \in {Absent, Str(<<"t">>)},
        f \in {Absent, Num} \cup {Str(x) : x \in SeqsUpTo(NameChars, MaxNameLen)}}

InitName ==
    /\ pc = "loop"
    /\ \E a \in NamedAssets :
          /\ doc = [kind |-> "list", items |-> <<a>>]
          /\ json_data = doc
          /\ assets = <<a>>
    /\ idx = 1
    /\ mock = TRUE
    /\ git_repo = FALSE
    /\ github_actions = FALSE
    /\ downloaded_files = << >>
    /\ fs = << >>
    /\ requests = 0
    /\ calls = << >>
    /\ why = "running"
    /\ cwd = "start"
    /\ original_dir = "unset"
    /\ start_exists = TRUE
    /\ fileIdx = 0
    /\ staged = FALSE
    /\ status_out = FALSE
    /\ remotes = "unknown"
    /\ gitLog = << >>
    /\ failed = {}
    /\ gitRet = "none"
    /\ published = << >>
    /\ success = "none"
    /\ exitCode = -1

NextName == ProcessAsset

SpecName == InitName /\ [][NextName]_vars


\* ================================================================= claims

GitReturned == gitRet # "none"
Standalone == ~github_actions
Ran(cmd) == \E i \in 1..Len(gitLog) : gitLog[i] = cmd

\* C1 as stated: in standalone mode, whenever git_operations has returned,
\* on the success path and on every failure path, the working directory of
\* the process is the one it was called in.
C1_CwdRestored ==
    (Standalone /\ GitReturned) => (cwd = "start" /\ original_dir = "start")

\* C2 as stated: in both modes git_operations never returns true after a
\* git command (init, checkout, add, status, commit, remote, push) exited
\* with a non-zero status.
C2_NeverTrueAfterFailure ==
    (gitRet = "true") => (failed \cap {"init", "checkout", "add", "status",
                                       "commit", "remote", "push"} = {})

Rank(cmd) ==
    CASE cmd = "init" -> 0
      [] cmd = "rev-parse" -> 1
      [] cmd = "checkout" -> 2
      [] cmd = "add" -> 3
      [] cmd = "status" -> 4
      [] cmd = "commit" -> 5
      [] cmd = "remote" -> 6
      [] cmd = "push" -> 7

Count(cmd) == Cardinality({i \in 1..Len(gitLog) : gitLog[i] = cmd})

\* C9 as stated: the commands run in the order add (every file), status,
\* commit, push; a commit is attempted only when staging the files left
\* changes staged; a push only after a successful commit, and in standalone
\* mode only when a remote named origin is configured, its absence being no
\* failure; with nothing staged the publisher returns success having
\* attempted neither commit nor push.
C9_OrderAndGuards ==
    /\ \A i, j \in 1..Len(gitLog) : i < j => Rank(gitLog[i]) <= Rank(gitLog[j])
    /\ Ran("status") => Count("add") = Len(downloaded_files)
    /\ Count("status") <= 1 /\ Count("commit") <= 1 /\ Count("push") <= 1
    /\ Ran("commit") => (Ran("status") /\ staged)
    /\ Ran("push") => (Ran("commit") /\ "commit" \notin failed)
    /\ (Ran("push") /\ Standalone) => remotes = "origin"
    /\ (GitReturned /\ Standalone /\ Ran("remote") /\ remotes = "none")
          => (gitRet = "true" /\ ~Ran("push"))
    /\ (GitReturned /\ Ran("status") /\ "status" \notin failed /\ ~staged)
          => (gitRet = "true" /\ ~Ran("commit") /\ ~Ran("push"))


\* ----------------------------------------------------- process_assets, main
HasList(j) == \/ j.assets.t = "list" \/ j.items.t = "list"
              \/ j.data.t = "list" \/ j.results.t = "list"

FirstList(j) ==
    IF j.assets.t = "list" THEN j.assets.items
    ELSE IF j.items.t = "list" THEN j.items.items
    ELSE IF j.data.t = "list" THEN j.data.items
    ELSE j.results.items

NoArray(j) == j.kind # "list" /\ ~(j.kind = "dict" /\ HasList(j))

Begun == pc \notin {"main", "load", "process"} /\ why \notin {"uncaught", "help", "usage"}

\* C5: once process_assets is past its start, the list it iterates over is,
\* for a mapping, the value of the first of assets, items, data, results that
\* is a list (a key with a non-list value is passed over), and for a list the
\* list itself; otherwise the operation fails and no download is attempted.
C5_Selection ==
    Begun =>
      /\ (json_data.kind = "dict" /\ HasList(json_data))
            => (assets = FirstList(json_data) /\ why \notin {"nojson", "noarray"})
      /\ json_data.kind = "list" => assets = json_data.items
      /\ (json_data.kind = "list" /\ json_data.items # << >>)
            => why \notin {"nojson", "noarray"}
      /\ NoArray(json_data)
            => /\ why \in {"nojson", "noarray"}
               /\ success = "false"
               /\ calls = << >> /\ requests = 0 /\ fs = << >>

\* a mapping whose assets key holds a non-list and whose items and data keys
\* hold different lists, after a download from the items list
C5_Witness ==
    /\ json_data.kind = "dict"
    /\ json_data.assets = JScalar
    /\ json_data.items.t = "list"
    /\ json_data.data.t = "list"
    /\ json_data.data # json_data.items
    /\ calls # << >>
    /\ calls[1].url = CleanUrl(json_data.items.items[1])

HasNoUrlKey(a) ==
    /\ a.downloadLink = Absent /\ a.download_link = Absent /\ a.url = Absent
    /\ a.link = Absent /\ a.downloadUrl = Absent

CallsFor(k) == {c \in 1..Len(calls) : calls[c].idx = k}

\* element k was skipped for want of a URL key, or its download failed
SkippedOrFailed(k) ==
    \/ HasNoUrlKey(assets[k]) /\ CallsFor(k) = {}
    \/ \E c \in CallsFor(k) : ~calls[c].ok

OtherSucceeded(k) == \E c \in 1..Len(calls) : calls[c].idx # k /\ calls[c].ok

Returned == pc \in {"return", "done"} /\ why \in {"exception", "nogit", "published"}

\* C3 as stated: for every asset sequence, an element without any URL key
\* or with a failed download does not abort the batch: the elements after it
\* are processed, and process_assets returns success if another element
\* downloaded successfully.
C3_SkipNeverAborts ==
    Returned =>
      \A k \in 1..Len(assets) :
         (HasNoUrlKey(assets[k]) \/ \E c \in CallsFor(k) : ~calls[c].ok)
            => /\ \A m \in (k + 1)..Len(assets) : idx > m
               /\ OtherSucceeded(k) => success = "true"

\* a mapping whose URL values are strings or null and whose filename is a string
WellTyped(a) ==
    /\ a.dict
    /\ \A i \in 1..Len(UrlKeys) : a[UrlKeys[i]].t \in {"absent", "str", "null"}
    /\ a.filename.t \in {"absent", "str"}

\* C3 amended: when every element is a well-typed mapping, an element
\* without any URL key or with a failed download is skipped, the elements
\* after it are processed, and if another element downloaded successfully
\* process_assets returns success when no repository is given and otherwise
\* what the publish step returns.
C3_SkipIsolated ==
    (Returned /\ \A k \in 1..Len(assets) : WellTyped(assets[k])) =>
      /\ idx = Len(assets) + 1
      /\ why # "exception"
      /\ \A k \in 1..Len(assets) :
            /\ HasNoUrlKey(assets[k]) => CallsFor(k) = {}
            /\ Cardinality(CallsFor(k)) <= 1
            /\ (SkippedOrFailed(k) /\ OtherSucceeded(k))
                  => success = (IF git_repo THEN gitRet ELSE "true")

\* a two-element batch whose first element was skipped or failed and whose
\* second element downloaded, with process_assets returning success
C3_Witness ==
    /\ pc = "done"
    /\ Len(assets) = 2
    /\ WellTyped(assets[1]) /\ WellTyped(assets[2])
    /\ SkippedOrFailed(1)
    /\ \E c \in CallsFor(2) : calls[c].ok
    /\ success = "true"

\* C4 as stated: main returns 1 exactly when no JSON value was loaded, no
\* asset array was found, no file was downloaded or the publish step
\* returned failure, and 0 in every other run.
C4_ExitCode ==
    pc = "done" =>
       exitCode = (IF \/ json_data = None
                      \/ NoArray(json_data)
                      \/ downloaded_files = << >>
                      \/ gitRet = "false"
                   THEN 1 ELSE 0)

\* C4 amended: a run that ends in parse_arguments exits with 0 on --help
\* and with 2 on a usage error; in every other run main returns 1 exactly
\* when no JSON value was loaded, no asset array was found, no file was
\* downloaded, the publish step returned failure, or an exception ended the
\* loop over the assets, and otherwise 0.
C4_ExitCodeOrException ==
    pc = "done" =>
       exitCode = (IF why = "help" THEN 0
                   ELSE IF why = "usage" THEN 2
                   ELSE IF \/ json_data = None
                      \/ NoArray(json_data)
                      \/ downloaded_files = << >>
                      \/ gitRet = "false"
                      \/ why = "exception"
                   THEN 1 ELSE 0)

\* a run that downloaded a file, then met an element that raised
C4_Witness ==
    /\ pc = "done"
    /\ exitCode = 1
    /\ downloaded_files # << >>
    /\ gitRet = "none"
    /\ idx <= Len(assets)
    /\ ~WellTyped(assets[idx])


\* every element led to a download_file call that returned success
AllDownloaded ==
    /\ Len(calls) = Len(assets)
    /\ \A c \in 1..Len(calls) : calls[c].idx = c /\ calls[c].ok

DistinctUrls == \A c, d \in 1..Len(calls) : c # d => calls[c].url # calls[d].url
DistinctPaths == \A c, d \in 1..Len(calls) : c # d => calls[c].path # calls[d].path

\* each of the N records has its own file, which holds the placeholder text
\* naming that record's URL, and no HTTP request was issued
OneFileEach ==
    /\ Cardinality(DOMAIN fs) = Len(assets)
    /\ \A c \in 1..Len(calls) :
          /\ calls[c].path \in DOMAIN fs
          /\ fs[calls[c].path] = [kind |-> "mock", url |-> calls[c].url]
    /\ requests = 0

\* the loop over the assets has ended and nothing has run since
LoopEnded == pc = "loop" /\ idx > Len(assets)

\* C8 as stated: in mock mode, the loop over N records that all download,
\* with pairwise distinct URLs, leaves exactly N files, each holding the
\* placeholder text of its own URL, and issues no HTTP request.
C8_MockFiles ==
    (mock /\ LoopEnded /\ Len(assets) >= 1 /\ AllDownloaded /\ DistinctUrls)
       => OneFileEach

\* C8 amended: in mock mode, when the loop over N records that all download,
\* with pairwise distinct URLs and pairwise distinct destination paths, has
\* ended, the output directory holds exactly N files, each holding the
\* placeholder text of its own URL, and no HTTP request has been issued.
C8_MockFilesDistinctPaths ==
    (mock /\ LoopEnded /\ Len(assets) >= 1 /\ AllDownloaded /\ DistinctUrls
       /\ DistinctPaths)
       => OneFileEach

\* the end of a mock loop over the largest batch, all records downloaded to
\* different paths
C8_Witness ==
    /\ mock /\ LoopEnded
    /\ Len(assets) = MaxAssets
    /\ AllDownloaded /\ DistinctUrls /\ DistinctPaths
    /\ Cardinality(DOMAIN fs) = MaxAssets

RECURSIVE OkPaths(_)
OkPaths(cs) ==
    IF cs = << >> THEN << >>
    ELSE IF Head(cs).ok THEN <<Head(cs).path>> \o OkPaths(Tail(cs))
    ELSE OkPaths(Tail(cs))

IsPrefix(s, t) == Len(s) <= Len(t) /\ SubSeq(t, 1, Len(s)) = s

DownloadOrder ==
    /\ \A c, d \in 1..Len(calls) : c < d => calls[c].idx < calls[d].idx
    /\ \A c \in 1..Len(calls) :
          /\ calls[c].idx < idx
          /\ calls[c].url = HtmlUnescape(DownloadUrl(assets[calls[c].idx]).s)
    /\ downloaded_files = OkPaths(calls)

PublishOnce ==
    /\ Len(published) <= 1
    /\ published # << >> =>
          /\ idx > Len(assets)
          /\ published[1] # << >>
          /\ published[1] = downloaded_files

C10_Step ==
    /\ IsPrefix(downloaded_files, downloaded_files')
    /\ IsPrefix(calls, calls')
    /\ DOMAIN fs \subseteq DOMAIN fs'

\* C10 as stated: in every state the downloads are in order (at most one
\* call per element, in the order of the sequence, the list holding the
\* paths of the calls that returned success) and the publisher has been
\* called at most once, after the last element, with a non-empty list equal
\* to the downloaded-files list; every step, those of a failing publish step
\* included, only extends the list and removes no written file.
C10_AppendOnly == [](DownloadOrder /\ PublishOnce) /\ [][C10_Step]_vars

\* ------------------------------------------------------- naming one asset
\* the URL without its query string: up to the first '?'
PathPart(u) ==
    LET n == CHOOSE n \in 0..Len(u) :
                /\ \A i \in 1..n : u[i] # "?"
                /\ n = Len(u) \/ u[n + 1] = "?"
    IN  SubSeq(u, 1, n)

\* the last segment of a path: after the last '/'
LastSegment(p) ==
    LET m == CHOOSE m \in 0..Len(p) :
                /\ \A i \in (m + 1)..Len(p) : p[i] # "/"
                /\ m = 0 \/ p[m] = "/"
    IN  SubSeq(p, m + 1, Len(p))

Zip == <<".", "z", "i", "p">>

\* the text from the last '.' of the segment, ".zip" when it has no '.'
ExtFromLastDot(seg) ==
    IF \E d \in 1..Len(seg) : seg[d] = "."
    THEN LET d == CHOOSE d \in 1..Len(seg) :
                     seg[d] = "." /\ \A i \in (d + 1)..Len(seg) : seg[i] # "."
         IN  SubSeq(seg, d, Len(seg))
    ELSE Zip

\* the same, a '.' counting only when a character other than '.' precedes it
ExtAfterName(seg) ==
    IF \E d \in 1..Len(seg) : seg[d] = "." /\ \E i \in 1..(d - 1) : seg[i] # "."
    THEN ExtFromLastDot(seg)
    ELSE Zip

\* the four naming rules, by priority, for a given reading of the extension
NamedByRule(a, u, Ext(_)) ==
    LET seg == LastSegment(PathPart(u))
    IN  IF a.name.t = "str" /\ a.type.t = "str"
        THEN a.name.s \o <<".">> \o a.type.s \o Ext(seg)
        ELSE IF a.filename.t = "str" THEN a.filename.s
        ELSE IF a.name.t = "str" THEN a.name.s \o Zip
        ELSE seg

\* C6 as stated: the filename before cleaning is "{name}.{type}{ext}" when
\* name and type are present, ext being the text from the last '.' of the
\* last URL path segment (query ignored) or ".zip" when there is none; else
\* the filename value; else "{name}.zip"; else the basename of the URL path.
C6_FilenamePriority ==
    \A c \in 1..Len(calls) :
       calls[c].raw = NamedByRule(assets[calls[c].idx], calls[c].url, ExtFromLastDot)

\* C6 amended: the same four rules, where the last path segment has an
\* extension only if a character other than '.' precedes its last '.' (for a
\* segment such as ".env" or "..", ext is ".zip").
C6_FilenamePrioritySplitext ==
    \A c \in 1..Len(calls) :
       calls[c].raw = NamedByRule(assets[calls[c].idx], calls[c].url, ExtAfterName)

\* name, type and filename all present and a URL whose last segment starts
\* with its only '.': rule 1 wins and the extension is ".zip"
C6_Witness ==
    \E c \in 1..Len(calls) :
       LET a == assets[calls[c].idx]
           seg == LastSegment(PathPart(calls[c].url))
       IN  /\ a.name = Str(<<"n">>) /\ a.type = Str(<<"t">>)
           /\ a.filename.t = "str"
           /\ Len(seg) = 2 /\ seg[1] = "." /\ seg[2] = "a"
           /\ Len(PathPart(calls[c].url)) < Len(calls[c].url)
           /\ calls[c].raw = <<"n", ".", "t">> \o Zip

AllowedChars == Letters \cup Digits \cup {".", "_", "-", " "}

RECURSIVE Dropped(_)
\* s with every character outside AllowedChars left out
Dropped(s) ==
    IF s = << >> THEN << >>
    ELSE IF Head(s) \in AllowedChars THEN <<Head(s)>> \o Dropped(Tail(s))
    ELSE Dropped(Tail(s))

\* C7: the path handed to download_file is the output directory, '/', and
\* the filename with every character other than letters, digits, '.', '_',
\* '-' and space dropped; the filename holds no path separator, and every
\* file written is an entry of the output directory itself.
C7_SanitizedPath ==
    /\ \A c \in 1..Len(calls) :
          LET path == calls[c].path
              name == SubSeq(path, Len(OutDir) + 2, Len(path))
          IN  /\ Len(path) >= Len(OutDir) + 1
              /\ SubSeq(path, 1, Len(OutDir) + 1) = OutDir \o <<"/">>
              /\ \A i \in 1..Len(name) : name[i] \in AllowedChars
              /\ \A i \in 1..Len(name) : name[i] \notin {"/", "\\"}
              /\ name = Dropped(calls[c].raw)
    /\ \A path \in DOMAIN fs :
          LET name == SubSeq(path, Len(OutDir) + 2, Len(path))
          IN  /\ SubSeq(path, 1, Len(OutDir) + 1) = OutDir \o <<"/">>
              /\ name \notin {<< >>, <<".">>, <<".", ".">>}
              /\ \A i \in 1..Len(name) : name[i] # "/"

\* a filename with a path separator and dots in it, written inside the
\* output directory under its cleaned name
C7_Witness ==
    \E c \in 1..Len(calls) :
       /\ \E i \in 1..Len(calls[c].raw) : calls[c].raw[i] = "/"
       /\ \E i \in 1..Len(calls[c].raw) : calls[c].raw[i] = "."
       /\ Len(calls[c].path) < Len(OutDir) + 1 + Len(calls[c].raw)
       /\ calls[c].ok
       /\ calls[c].path \in DOMAIN fs

====
